---- MODULE Spec2Model ----
(***************************************************************************)
(* Model of contracts/hello-world/src/lib.rs (HelloContract).              *)
(*                                                                         *)
(* The contract is stateless; everything lives in the two storage tiers    *)
(* of the host: instance storage (Admin, ContadorSaludos,                  *)
(* LimiteCaracteres) and persistent storage (UltimoSaludo(addr),           *)
(* ContadorPorUsuario(addr)).  Every invocation runs to completion, so     *)
(* each contract function is one action.                                   *)
(***************************************************************************)
EXTENDS Integers, Sequences, FiniteSets, TLC

\* ---------------------------------------------------------------- bounds
NumAddress == 2          \* number of distinct Address values
MaxSaludos == 2          \* accepted hellos are explored while fewer have succeeded
MaxLimite == 0           \* small limits 0..MaxLimite offered to set_limite

\* ------------------------------------------------------ program constants
NombreVacio == 1
NombreMuyLargo == 2
NoAutorizado == 3
NoInicializado == 4
LimitePorDefecto == 32   \* 32u32 written by initialize, unwrap_or(32) in hello
TtlThreshold == 100      \* first argument of every extend_ttl call
TtlExtendTo == 100       \* second argument of every extend_ttl call

\* u32 values are held as their 32-bit two's-complement pattern, because the
\* model checker's integers are 32-bit signed: 0 .. 2^31 - 1 stand for
\* themselves and -2^31 .. -1 stand for 2^31 .. 2^32 - 1.  u32::MAX is -1.
U32Max == -1

\* a < b and a > b on u32 values.
u32_lt(a, b) == IF (a < 0) = (b < 0) THEN a < b ELSE b < 0
u32_gt(a, b) == u32_lt(b, a)

\* 2^31 - 1, the largest u32 whose pattern is not negative; its successor
\* 2^31 has the pattern -2^31.
SignBitMax == 2147483647

\* x + 1 on a u32 in a build without overflow checks: u32::MAX wraps to 0,
\* and 2^31 - 1 carries into the top bit without any overflow.
wrapping_add_1(x) ==
    IF x = U32Max THEN 0
    ELSE IF x = SignBitMax THEN (-SignBitMax) - 1
    ELSE x + 1

\* ------------------------------------------------------------ value sets
Address == 1..NumAddress

\* The String of length n made of the character c.
Rep(c, n) == [i \in 1..n |-> c]

\* Names offered to hello: the empty name and one name of every length
\* around the small limits and around the default limit.
NameLens ==
    (0..(MaxLimite + 1)) \cup {LimitePorDefecto, LimitePorDefecto + 1}
Nombres == {Rep("a", n) : n \in NameLens}

\* Limits offered to set_limite.
Limites == 0..MaxLimite

\* The largest limit, offered to set_limite besides the small ones.
LimitesU32 == Limites \cup {U32Max}

\* Option<T>: None is the empty sequence, Some(v) the one-element sequence.
None == <<>>
Some(v) == <<v>>
IsSome(o) == o # None
unwrap_or(o, d) == IF o = None THEN d ELSE o[1]

\* DataKey
InstanceKeys == {"Admin", "ContadorSaludos", "LimiteCaracteres"}
UltimoSaludo(a) == <<"UltimoSaludo", a>>
ContadorPorUsuario(a) == <<"ContadorPorUsuario", a>>
PersistentKeys ==
    {UltimoSaludo(a) : a \in Address} \cup {ContadorPorUsuario(a) : a \in Address}

\* Result values.  All results share one record shape so that any two of
\* them can be compared.
OkUnit == [kind |-> "Ok(())", code |-> 0, num |-> 0, txt |-> None]
OkSymbol(s) == [kind |-> "Ok(Symbol)", code |-> 0, num |-> 0, txt |-> Some(s)]
Err(e) == [kind |-> "Err", code |-> e, num |-> 0, txt |-> None]
U32(n) == [kind |-> "u32", code |-> 0, num |-> n, txt |-> None]
OptString(o) == [kind |-> "Option<String>", code |-> 0, num |-> 0, txt |-> o]
NoCall == [kind |-> "none", code |-> 0, num |-> 0, txt |-> None]
\* The invocation panicked: the host fails it and discards its writes.
Panic == [kind |-> "Panic", code |-> 0, num |-> 0, txt |-> None]

\* One extend_ttl call.
Renewal(storage, key) ==
    [storage |-> storage, key |-> key,
     threshold |-> TtlThreshold, extend_to |-> TtlExtendTo]

VARIABLES
    instance,       \* env.storage().instance(): key -> Option<value>
    persistent,     \* env.storage().persistent(): key -> Option<value>
    instanceTtl,    \* last extension granted to the instance entry, or None
    persistentTtl,  \* key -> last extension granted to that entry, or None
    renewals,       \* extend_ttl calls issued by the latest invocation
    op,             \* name of the latest invocation
    ret,            \* what the latest invocation returned
    saludos,        \* history: successful hello invocations so far
    desdeReset      \* history: successful hello invocations since the latest
                    \* successful reset_contador (since deployment if none)

vars == <<instance, persistent, instanceTtl, persistentTtl, renewals, op, ret,
          saludos, desdeReset>>

Init ==
    /\ instance = [k \in InstanceKeys |-> None]
    /\ persistent = [k \in PersistentKeys |-> None]
    /\ instanceTtl = None
    /\ persistentTtl = [k \in PersistentKeys |-> None]
    /\ renewals = <<>>
    /\ op = "deploy"
    /\ ret = NoCall
    /\ saludos = 0
    /\ desdeReset = 0

\* ------------------------------------------------------------- the reads
\* get_contador: instance().get(ContadorSaludos).unwrap_or(0)
contador_de(inst) == unwrap_or(inst["ContadorSaludos"], 0)
\* get_ultimo_saludo: persistent().get(UltimoSaludo(usuario))
ultimo_saludo_de(pers, usuario) == pers[UltimoSaludo(usuario)]
\* get_contador_usuario: persistent().get(ContadorPorUsuario(usuario)).unwrap_or(0)
\* Mutant: a missing per-user counter reads as 1.
contador_usuario_de_uno(pers, usuario) == unwrap_or(pers[ContadorPorUsuario(usuario)], 1)
contador_usuario_de(pers, usuario) == unwrap_or(pers[ContadorPorUsuario(usuario)], 0)
\* hello: instance().get(LimiteCaracteres).unwrap_or(32)
limite_de(inst) == unwrap_or(inst["LimiteCaracteres"], LimitePorDefecto)

\* A failed or read-only invocation: nothing stored, nothing renewed.
NoEffect ==
    /\ UNCHANGED <<instance, persistent, instanceTtl, persistentTtl, saludos, desdeReset>>
    /\ renewals' = <<>>

\* ------------------------------------------------------------ initialize
\* Mutant: initialize without the has(Admin) guard.
initialize_sin_guardia(admin) ==
    /\ op' = "initialize"
    /\ instance' = [instance EXCEPT !["Admin"] = Some(admin),
                                    !["ContadorSaludos"] = Some(0),
                                    !["LimiteCaracteres"] = Some(LimitePorDefecto)]
    /\ instanceTtl' = Some(Renewal("instance", None))
    /\ renewals' = <<Renewal("instance", None)>>
    /\ ret' = OkUnit
    /\ UNCHANGED <<persistent, persistentTtl, saludos, desdeReset>>

initialize(admin) ==
    /\ op' = "initialize"
    /\ IF IsSome(instance["Admin"])
       THEN /\ ret' = Err(NoInicializado)
            /\ NoEffect
       ELSE /\ instance' = [instance EXCEPT !["Admin"] = Some(admin),
                                            !["ContadorSaludos"] = Some(0),
                                            !["LimiteCaracteres"] = Some(LimitePorDefecto)]
            /\ instanceTtl' = Some(Renewal("instance", None))
            /\ renewals' = <<Renewal("instance", None)>>
            /\ ret' = OkUnit
            /\ UNCHANGED <<persistent, persistentTtl, saludos, desdeReset>>

\* ----------------------------------------------------------------- hello
\* Mutant: the empty-name check is missing.
validar_nombre_sin_vacio(nombre, limite) ==
    IF u32_gt(Len(nombre), limite) THEN Some(NombreMuyLargo) ELSE None

\* Mutant: the length check is off by one (>= instead of >).
validar_nombre_estricto(nombre, limite) ==
    IF Len(nombre) = 0 THEN Some(NombreVacio)
    ELSE IF ~u32_lt(Len(nombre), limite) THEN Some(NombreMuyLargo)
    ELSE None

\* The two input checks of hello, in the order the code runs them:
\* None when the name passes, Some(error) otherwise.
validar_nombre(nombre, limite) ==
    IF Len(nombre) = 0 THEN Some(NombreVacio)
    ELSE IF u32_gt(Len(nombre), limite) THEN Some(NombreMuyLargo)
    ELSE None

\* The writes of a hello that passed its checks.
hello_instance(inst) ==
    [inst EXCEPT !["ContadorSaludos"] = Some(wrapping_add_1(contador_de(inst)))]

\* Mutant: the per-user counter is written as 1 without reading it first.
hello_persistent_sin_lectura(pers, usuario, nombre) ==
    [pers EXCEPT ![ContadorPorUsuario(usuario)] = Some(1),
                 ![UltimoSaludo(usuario)] = Some(nombre)]

\* Mutant: the last greeting is stored under every address, not the caller's.
hello_persistent_global(pers, usuario, nombre) ==
    [k \in PersistentKeys |->
        IF k = ContadorPorUsuario(usuario)
        THEN Some(contador_usuario_de(pers, usuario) + 1)
        ELSE IF k[1] = "UltimoSaludo" THEN Some(nombre)
        ELSE pers[k]]

\* Mutant: the counter is written but the last greeting is not.
hello_persistent_sin_saludo(pers, usuario, nombre) ==
    [pers EXCEPT ![ContadorPorUsuario(usuario)] =
                     Some(contador_usuario_de(pers, usuario) + 1)]

hello_persistent(pers, usuario, nombre) ==
    [pers EXCEPT ![ContadorPorUsuario(usuario)] =
                     Some(wrapping_add_1(contador_usuario_de(pers, usuario))),
                 ![UltimoSaludo(usuario)] = Some(nombre)]

\* Mutant: the per-user counter entry is renewed as well.
hello_renewals_ambos(usuario) ==
    <<Renewal("persistent", UltimoSaludo(usuario)),
      Renewal("persistent", ContadorPorUsuario(usuario)),
      Renewal("instance", None)>>

\* The extend_ttl calls of a hello that passed its checks, in order.
hello_renewals(usuario) ==
    <<Renewal("persistent", UltimoSaludo(usuario)), Renewal("instance", None)>>

\* One of the two additions of hello exceeds u32::MAX.  The source writes
\* them with a plain +, so a build with overflow checks panics there and a
\* build without them wraps; the build profile is not part of the source,
\* and hello below allows both outcomes.
hello_overflows(inst, pers, usuario) ==
    \/ contador_de(inst) = U32Max
    \/ contador_usuario_de(pers, usuario) = U32Max

hello(usuario, nombre) ==
    /\ op' = "hello"
    /\ LET error == validar_nombre(nombre, limite_de(instance)) IN
       IF IsSome(error)
       THEN /\ ret' = Err(error[1])
            /\ NoEffect
       ELSE /\ saludos < MaxSaludos
            /\ \/ /\ hello_overflows(instance, persistent, usuario)
                  /\ ret' = Panic
                  /\ NoEffect
               \/ /\ instance' = hello_instance(instance)
                  /\ persistent' = hello_persistent(persistent, usuario, nombre)
                  /\ persistentTtl' =
                         [persistentTtl EXCEPT ![UltimoSaludo(usuario)] =
                              Some(Renewal("persistent", UltimoSaludo(usuario)))]
                  /\ instanceTtl' = Some(Renewal("instance", None))
                  /\ renewals' = hello_renewals(usuario)
                  /\ ret' = OkSymbol("Hola")
                  /\ saludos' = saludos + 1
                  /\ desdeReset' = desdeReset + 1

\* --------------------------------------------------------------- queries
get_contador ==
    /\ op' = "get_contador"
    /\ ret' = U32(contador_de(instance))
    /\ NoEffect

get_ultimo_saludo(usuario) ==
    /\ op' = "get_ultimo_saludo"
    /\ ret' = OptString(ultimo_saludo_de(persistent, usuario))
    /\ NoEffect

get_contador_usuario(usuario) ==
    /\ op' = "get_contador_usuario"
    /\ ret' = U32(contador_usuario_de(persistent, usuario))
    /\ NoEffect

\* ------------------------------------------------------- admin functions
\* The guard shared by reset_contador, transfer_admin and set_limite:
\* get(Admin).ok_or(NoInicializado)?, then caller != admin => NoAutorizado.
\* Mutant: the caller is never compared with the admin.
verificar_admin_sin_comparar(inst, caller) ==
    IF inst["Admin"] = None THEN Some(NoInicializado) ELSE None

\* Mutant: a missing admin is reported as a failed comparison.
verificar_admin_sin_ok_or(inst, caller) ==
    IF inst["Admin"] = None THEN Some(NoAutorizado)
    ELSE IF caller # inst["Admin"][1] THEN Some(NoAutorizado)
    ELSE None

verificar_admin(inst, caller) ==
    IF inst["Admin"] = None THEN Some(NoInicializado)
    ELSE IF caller # inst["Admin"][1] THEN Some(NoAutorizado)
    ELSE None

\* Mutant: the reset also clears the per-user counters.
reset_contador_total(caller) ==
    /\ op' = "reset_contador"
    /\ LET error == verificar_admin(instance, caller) IN
       IF IsSome(error)
       THEN /\ ret' = Err(error[1])
            /\ NoEffect
       ELSE /\ instance' = [instance EXCEPT !["ContadorSaludos"] = Some(0)]
            /\ persistent' = [k \in PersistentKeys |->
                                 IF k[1] = "ContadorPorUsuario" /\ IsSome(persistent[k])
                                 THEN Some(0) ELSE persistent[k]]
            /\ renewals' = <<>>
            /\ ret' = OkUnit
            /\ desdeReset' = 0
            /\ UNCHANGED <<instanceTtl, persistentTtl, saludos>>

reset_contador(caller) ==
    /\ op' = "reset_contador"
    /\ LET error == verificar_admin(instance, caller) IN
       IF IsSome(error)
       THEN /\ ret' = Err(error[1])
            /\ NoEffect
       ELSE /\ instance' = [instance EXCEPT !["ContadorSaludos"] = Some(0)]
            /\ renewals' = <<>>
            /\ ret' = OkUnit
            /\ desdeReset' = 0
            /\ UNCHANGED <<persistent, instanceTtl, persistentTtl, saludos>>

\* transfer_admin that passes the guard and returns Ok(()) without
\* writing the new admin.
transfer_admin_sin_escritura(caller, nuevo_admin) ==
    /\ op' = "transfer_admin"
    /\ LET error == verificar_admin(instance, caller) IN
       IF IsSome(error)
       THEN /\ ret' = Err(error[1])
            /\ NoEffect
       ELSE /\ ret' = OkUnit
            /\ NoEffect

transfer_admin(caller, nuevo_admin) ==
    /\ op' = "transfer_admin"
    /\ LET error == verificar_admin(instance, caller) IN
       IF IsSome(error)
       THEN /\ ret' = Err(error[1])
            /\ NoEffect
       ELSE /\ instance' = [instance EXCEPT !["Admin"] = Some(nuevo_admin)]
            /\ renewals' = <<>>
            /\ ret' = OkUnit
            /\ UNCHANGED <<persistent, instanceTtl, persistentTtl, saludos, desdeReset>>

\* set_limite that refuses to store 0 and stores 1 in its place.
set_limite_min_uno(caller, limite) ==
    /\ op' = "set_limite"
    /\ LET error == verificar_admin(instance, caller) IN
       IF IsSome(error)
       THEN /\ ret' = Err(error[1])
            /\ NoEffect
       ELSE /\ instance' = [instance EXCEPT !["LimiteCaracteres"] =
                                Some(IF limite = 0 THEN 1 ELSE limite)]
            /\ renewals' = <<>>
            /\ ret' = OkUnit
            /\ UNCHANGED <<persistent, instanceTtl, persistentTtl, saludos, desdeReset>>

set_limite(caller, limite) ==
    /\ op' = "set_limite"
    /\ LET error == verificar_admin(instance, caller) IN
       IF IsSome(error)
       THEN /\ ret' = Err(error[1])
            /\ NoEffect
       ELSE /\ instance' = [instance EXCEPT !["LimiteCaracteres"] = Some(limite)]
            /\ renewals' = <<>>
            /\ ret' = OkUnit
            /\ UNCHANGED <<persistent, instanceTtl, persistentTtl, saludos, desdeReset>>

Next ==
    \/ \E admin \in Address : initialize(admin)
    \/ \E usuario \in Address, nombre \in Nombres : hello(usuario, nombre)
    \/ get_contador
    \/ \E usuario \in Address : get_ultimo_saludo(usuario)
    \/ \E usuario \in Address : get_contador_usuario(usuario)
    \/ \E caller \in Address : reset_contador(caller)
    \/ \E caller \in Address, nuevo_admin \in Address : transfer_admin(caller, nuevo_admin)
    \/ \E caller \in Address, limite \in Limites : set_limite(caller, limite)

Spec == Init /\ [][Next]_vars

\* ------------------------------------------------- the edges of u32
\* A contract whose counters are about to overflow: after initialize(1),
\* address 1 greeted u32::MAX times, the admin reset ContadorSaludos, and
\* address 2 then greeted u32::MAX - 1 times.  saludos and desdeReset count
\* from this state on.
InitU32 ==
    /\ instance = [k \in InstanceKeys |->
                      IF k = "Admin" THEN Some(1)
                      ELSE IF k = "ContadorSaludos" THEN Some(U32Max - 1)
                      ELSE Some(LimitePorDefecto)]
    /\ persistent = [k \in PersistentKeys |->
                        IF k = ContadorPorUsuario(1) THEN Some(U32Max)
                        ELSE IF k = ContadorPorUsuario(2) THEN Some(U32Max - 1)
                        ELSE IF k \in {UltimoSaludo(1), UltimoSaludo(2)}
                             THEN Some(Rep("a", 1))
                        ELSE None]
    /\ instanceTtl = Some(Renewal("instance", None))
    /\ persistentTtl = [k \in PersistentKeys |->
                           IF k \in {UltimoSaludo(1), UltimoSaludo(2)}
                           THEN Some(Renewal("persistent", k))
                           ELSE None]
    /\ renewals = <<>>
    /\ op = "deploy"
    /\ ret = NoCall
    /\ saludos = 0
    /\ desdeReset = 0

NextU32 ==
    \/ Next
    \/ \E caller \in Address : set_limite(caller, U32Max)

SpecU32 == InitU32 /\ [][NextU32]_vars

\* ==================================================================
\* Properties
\* ==================================================================
Admin == instance["Admin"]
EsAdmin(caller) == IsSome(Admin) /\ caller = Admin[1]

\* A step of one of the three admin functions, called by `caller`.
AdminCall(caller) ==
    \/ reset_contador(caller)
    \/ \E nuevo_admin \in Address : transfer_admin(caller, nuevo_admin)
    \/ \E limite \in Limites : set_limite(caller, limite)

\* C1 (Init-once): initialize succeeds when Admin is absent; whenever Admin
\* is present, initialize with any argument fails and leaves Admin,
\* ContadorSaludos and LimiteCaracteres exactly as they were.
C1_InitOnce ==
    [][\A admin \in Address :
          initialize(admin) =>
              IF Admin = None
              THEN /\ ret' = OkUnit
                   /\ instance'["Admin"] = Some(admin)
              ELSE /\ ret'.kind = "Err"
                   /\ instance' = instance]_vars

\* A second initialize was refused after greetings had been counted.
C1_Witness ==
    /\ op = "initialize"
    /\ ret.kind = "Err"
    /\ IsSome(Admin)
    /\ contador_de(instance) > 0

\* C2 (Authorization enforcement): once initialized, reset_contador,
\* transfer_admin and set_limite called by an address other than the
\* current Admin return NoAutorizado and change no stored value.
C2_Unauthorized ==
    [][\A caller \in Address :
          (IsSome(Admin) /\ ~EsAdmin(caller) /\ AdminCall(caller)) =>
              /\ ret' = Err(NoAutorizado)
              /\ instance' = instance
              /\ persistent' = persistent]_vars

\* A non-admin reset was refused while the counter was not zero.
C2_Witness ==
    /\ op = "reset_contador"
    /\ ret = Err(NoAutorizado)
    /\ contador_de(instance) > 0

\* C3 (Counter monotonicity): after N successful hello invocations and no
\* reset_contador, get_contador returns N.  saludos counts the successful
\* hellos; desdeReset = saludos exactly when no successful reset_contador
\* came after the first of them.
C3_CounterCountsHellos ==
    (desdeReset = saludos) => contador_de(instance) = saludos

\* C4: a hello with an accepted name returns the token "Hola", makes
\* get_contador and the caller's get_contador_usuario one larger and sets
\* the caller's get_ultimo_saludo to Some(nombre), whether or not the
\* contract is initialized and whether or not the caller is known.
C4_HelloEffect ==
    [][op' = "hello" =>
       \A usuario \in Address, nombre \in Nombres :
          (/\ Len(nombre) # 0
           /\ Len(nombre) <= limite_de(instance)
           /\ hello(usuario, nombre)) =>
              /\ ret' = OkSymbol("Hola")
              /\ contador_de(instance') = contador_de(instance) + 1
              /\ contador_usuario_de(persistent', usuario) =
                     contador_usuario_de(persistent, usuario) + 1
              /\ ultimo_saludo_de(persistent', usuario) = Some(nombre)]_vars

\* A known caller greeted a second time on a contract never initialized.
C4_Witness ==
    /\ op = "hello"
    /\ ret = OkSymbol("Hola")
    /\ Admin = None
    /\ \E usuario \in Address : contador_usuario_de(persistent, usuario) = 2

\* C5 (Validation before mutation): a hello refused with NombreVacio or
\* NombreMuyLargo writes nothing and renews nothing.
C5_RejectedHello ==
    [][op' = "hello" =>
       \A usuario \in Address, nombre \in Nombres :
          (/\ (Len(nombre) = 0 \/ Len(nombre) > limite_de(instance))
           /\ hello(usuario, nombre)) =>
              /\ ret' = Err(IF Len(nombre) = 0 THEN NombreVacio ELSE NombreMuyLargo)
              /\ instance' = instance
              /\ persistent' = persistent
              /\ instanceTtl' = instanceTtl
              /\ persistentTtl' = persistentTtl
              /\ renewals' = <<>>]_vars

\* An empty name was refused after a greeting had been stored.
C5_Witness ==
    /\ op = "hello"
    /\ ret = Err(NombreVacio)
    /\ saludos > 0

\* C6 (Reset scope): a reset_contador by the admin sets get_contador to 0
\* and leaves every per-user counter, every last greeting, Admin and
\* LimiteCaracteres unchanged.
C6_ResetScope ==
    [][\A caller \in Address :
          (EsAdmin(caller) /\ reset_contador(caller)) =>
              /\ ret' = OkUnit
              /\ contador_de(instance') = 0
              /\ persistent' = persistent
              /\ instance'["Admin"] = instance["Admin"]
              /\ instance'["LimiteCaracteres"] = instance["LimiteCaracteres"]]_vars

\* A reset succeeded and a user who had greeted keeps counter and greeting.
C6_Witness ==
    /\ op = "reset_contador"
    /\ ret = OkUnit
    /\ contador_de(instance) = 0
    /\ \E usuario \in Address :
          /\ contador_usuario_de(persistent, usuario) > 0
          /\ IsSome(ultimo_saludo_de(persistent, usuario))

\* C7 (Per-identity isolation): a hello by B, accepted or refused, leaves
\* get_contador_usuario(A) and get_ultimo_saludo(A) unchanged for A # B.
C7_Isolation ==
    [][op' = "hello" =>
       \A b \in Address, nombre \in Nombres :
          hello(b, nombre) =>
              \A a \in Address \ {b} :
                  /\ contador_usuario_de(persistent', a) =
                         contador_usuario_de(persistent, a)
                  /\ ultimo_saludo_de(persistent', a) =
                         ultimo_saludo_de(persistent, a)]_vars

\* Two users have greeted with different names.
C7_Witness ==
    /\ op = "hello"
    /\ ret = OkSymbol("Hola")
    /\ \E a \in Address, b \in Address :
          /\ a # b
          /\ contador_usuario_de(persistent, a) = 1
          /\ contador_usuario_de(persistent, b) = 1
          /\ ultimo_saludo_de(persistent, a) # ultimo_saludo_de(persistent, b)

\* C8 as stated (Limit boundary): for every value L of the limit, 0
\* included, a name of length exactly L is accepted and a name of length
\* L + 1 is refused with NombreMuyLargo.
C8_LimitBoundary_Original ==
    [][op' = "hello" =>
       \A usuario \in Address, nombre \in Nombres :
          hello(usuario, nombre) =>
              /\ (Len(nombre) = limite_de(instance) => ret' = OkSymbol("Hola"))
              /\ (Len(nombre) = limite_de(instance) + 1 =>
                      ret' = Err(NombreMuyLargo))]_vars

\* C8 amended: for every value L >= 1 of the limit a name of length exactly
\* L is accepted; for every L, 0 included, a name of length L + 1 is
\* refused with NombreMuyLargo; with L = 0 the name of length 0 is refused
\* with NombreVacio.
C8_LimitBoundary ==
    [][op' = "hello" =>
       \A usuario \in Address, nombre \in Nombres :
          hello(usuario, nombre) =>
              /\ (Len(nombre) = limite_de(instance) /\ limite_de(instance) >= 1 =>
                      ret' = OkSymbol("Hola"))
              /\ (Len(nombre) = limite_de(instance) /\ limite_de(instance) = 0 =>
                      ret' = Err(NombreVacio))
              /\ (Len(nombre) = limite_de(instance) + 1 =>
                      ret' = Err(NombreMuyLargo))]_vars

\* A name exactly as long as the stored limit was accepted.
C8_Witness ==
    /\ op = "hello"
    /\ ret = OkSymbol("Hola")
    /\ IsSome(instance["LimiteCaracteres"])
    /\ \E usuario \in Address :
          /\ IsSome(ultimo_saludo_de(persistent, usuario))
          /\ Len(ultimo_saludo_de(persistent, usuario)[1]) = limite_de(instance)

\* C9 (Initialization check first): while Admin is absent, reset_contador,
\* transfer_admin and set_limite fail with NoInicializado for every caller
\* and write nothing.
C9_NotInitialized ==
    [][\A caller \in Address :
          (Admin = None /\ AdminCall(caller)) =>
              /\ ret' = Err(NoInicializado)
              /\ instance' = instance
              /\ persistent' = persistent]_vars

\* set_limite was refused on a contract that has greeted but has no admin.
C9_Witness ==
    /\ op = "set_limite"
    /\ ret = Err(NoInicializado)
    /\ Admin = None
    /\ saludos > 0

\* C10 (Queries): get_contador returns the stored ContadorSaludos or 0,
\* get_contador_usuario(U) the stored ContadorPorUsuario(U) or 0,
\* get_ultimo_saludo(U) the stored UltimoSaludo(U) as an Option, and each
\* leaves every stored value and every TTL unchanged and renews nothing.
C10_Queries ==
    [][/\ get_contador =>
              ret' = U32(IF instance["ContadorSaludos"] = None THEN 0
                         ELSE instance["ContadorSaludos"][1])
       /\ \A usuario \in Address :
              get_contador_usuario(usuario) =>
                  ret' = U32(IF persistent[ContadorPorUsuario(usuario)] = None THEN 0
                             ELSE persistent[ContadorPorUsuario(usuario)][1])
       /\ \A usuario \in Address :
              get_ultimo_saludo(usuario) =>
                  ret' = OptString(persistent[UltimoSaludo(usuario)])
       /\ (\/ get_contador
           \/ \E usuario \in Address : get_contador_usuario(usuario)
           \/ \E usuario \in Address : get_ultimo_saludo(usuario)) =>
              /\ instance' = instance
              /\ persistent' = persistent
              /\ instanceTtl' = instanceTtl
              /\ persistentTtl' = persistentTtl
              /\ renewals' = <<>>]_vars

\* Before initialize, a counter query answered 0 for an unknown user while
\* another user's greeting was on record.
C10_Witness ==
    /\ op = "get_contador_usuario"
    /\ ret = U32(0)
    /\ Admin = None
    /\ \E usuario \in Address : persistent[ContadorPorUsuario(usuario)] = None
    /\ \E usuario \in Address : IsSome(persistent[UltimoSaludo(usuario)])

\* C11 as stated: every step that lowers get_contador is a successful
\* reset_contador; initialize, hello, transfer_admin, set_limite, the
\* queries and failed calls never lower it.
C11_OnlyResetLowers ==
    [][contador_de(instance') < contador_de(instance) =>
          /\ op' = "reset_contador"
          /\ ret' = OkUnit
          /\ IsSome(Admin)
          /\ reset_contador(Admin[1])]_vars

\* The storage of a contract that was never initialized.
SinInicializar == [k \in InstanceKeys |-> None]

\* C12: the error of an initialize on an initialized contract is a kind of
\* its own: its numeric code differs from that of the error which
\* reset_contador, transfer_admin and set_limite return on an uninitialized
\* contract.
C12_DistinctKinds ==
    (op = "initialize" /\ ret.kind = "Err") =>
        \A caller \in Address :
            ret # Err(verificar_admin(SinInicializar, caller)[1])

\* C13: ownership handover.  (1) A transfer_admin(A, B) called by the
\* current admin A returns Ok(()), makes B the admin and changes no other
\* instance entry, no persistent entry and no TTL.  (2) From then on the
\* admin stays the same through every step that is not a successful
\* transfer_admin.  (3) While B is the admin, reset_contador, transfer_admin
\* and set_limite return NoAutorizado to every caller other than B, the
\* previous admin A included, and Ok(()) to B.
C13_Handover ==
    [][/\ op' = "transfer_admin" =>
            \A A \in Address, B \in Address :
                (EsAdmin(A) /\ transfer_admin(A, B)) =>
                    /\ ret' = OkUnit
                    /\ instance' = [instance EXCEPT !["Admin"] = Some(B)]
                    /\ UNCHANGED <<persistent, instanceTtl, persistentTtl>>
       /\ (IsSome(Admin) /\ ~(op' = "transfer_admin" /\ ret' = OkUnit)) =>
            instance'["Admin"] = Admin
       /\ (IsSome(Admin) /\ op' \in {"reset_contador", "transfer_admin", "set_limite"}) =>
            \A caller \in Address :
                (\/ reset_contador(caller)
                 \/ \E nuevo_admin \in Address : transfer_admin(caller, nuevo_admin)
                 \/ \E limite \in LimitesU32 : set_limite(caller, limite)) =>
                    ret' = IF caller = Admin[1] THEN OkUnit ELSE Err(NoAutorizado)]_vars

\* Started with address 1 as admin, the contract now has address 2 as
\* admin, and an admin operation has just been refused as NoAutorizado.
C13_Witness ==
    /\ Admin = Some(2)
    /\ op \in {"reset_contador", "transfer_admin", "set_limite"}
    /\ ret = Err(NoAutorizado)

\* C14: Admin, once present, is never absent again; its value changes only
\* in the successful initialize that finds it absent and in successful
\* transfer_admin calls made by the admin of that moment; no call made by
\* another address and no other function changes it.
C14_AdminChanges ==
    [][/\ IsSome(Admin) => IsSome(instance'["Admin"])
       /\ instance'["Admin"] # Admin =>
              \/ /\ Admin = None
                 /\ op' = "initialize"
                 /\ ret' = OkUnit
              \/ /\ IsSome(Admin)
                 /\ op' = "transfer_admin"
                 /\ ret' = OkUnit
                 /\ transfer_admin(Admin[1], instance'["Admin"][1])
       /\ op' = "transfer_admin" =>
              \A caller \in Address, nuevo_admin \in Address :
                  (~EsAdmin(caller) /\ transfer_admin(caller, nuevo_admin)) =>
                      instance'["Admin"] = Admin
       /\ op' = "initialize" =>
              \A admin \in Address :
                  (IsSome(Admin) /\ initialize(admin)) => instance'["Admin"] = Admin]_vars

\* The admin was replaced by a transfer after greetings had been stored.
C14_Witness ==
    /\ op = "transfer_admin"
    /\ ret = OkUnit
    /\ IsSome(Admin)
    /\ saludos > 0

\* C16: a successful initialize issues exactly one renewal, of the instance
\* entry; a successful hello issues exactly one renewal of the caller's
\* UltimoSaludo entry and one of the instance entry; every renewal is
\* (100, 100); reset_contador, transfer_admin, set_limite, the queries and
\* every failed call issue none.
C16_Renewals ==
    [][/\ (op' = "initialize" /\ ret' = OkUnit) =>
              renewals' = <<[storage |-> "instance", key |-> None,
                             threshold |-> 100, extend_to |-> 100]>>
       /\ op' = "hello" =>
              \A usuario \in Address, nombre \in Nombres :
                  (hello(usuario, nombre) /\ ret' = OkSymbol("Hola")) =>
                      renewals' =
                          <<[storage |-> "persistent", key |-> UltimoSaludo(usuario),
                             threshold |-> 100, extend_to |-> 100],
                            [storage |-> "instance", key |-> None,
                             threshold |-> 100, extend_to |-> 100]>>
       /\ (\/ op' \notin {"initialize", "hello"}
           \/ ret'.kind = "Err") =>
              /\ renewals' = <<>>
              /\ instanceTtl' = instanceTtl
              /\ persistentTtl' = persistentTtl]_vars

\* A successful hello has issued its two renewals.
C16_Witness ==
    /\ op = "hello"
    /\ ret = OkSymbol("Hola")
    /\ Len(renewals) = 2

\* C17 as stated: every successful hello by U renews both of U's
\* persistent entries, so every stored ContadorPorUsuario(U) has been
\* renewed like the UltimoSaludo(U) stored with it.
C17_BothScopedRenewed ==
    \A usuario \in Address :
        IsSome(persistent[ContadorPorUsuario(usuario)]) =>
            /\ IsSome(persistentTtl[UltimoSaludo(usuario)])
            /\ IsSome(persistentTtl[ContadorPorUsuario(usuario)])

\* C18: for every address U, get_ultimo_saludo(U) is Some exactly when
\* get_contador_usuario(U) >= 1, and every step that changes one of U's
\* two entries is a successful hello that leaves both of them stored.
C18_UpdatedTogether ==
    [][\A usuario \in Address :
          /\ IsSome(ultimo_saludo_de(persistent', usuario)) <=>
                 contador_usuario_de(persistent', usuario) >= 1
          /\ (\/ persistent'[UltimoSaludo(usuario)] # persistent[UltimoSaludo(usuario)]
              \/ persistent'[ContadorPorUsuario(usuario)] #
                     persistent[ContadorPorUsuario(usuario)]) =>
                 /\ op' = "hello"
                 /\ ret' = OkSymbol("Hola")
                 /\ persistent'[ContadorPorUsuario(usuario)] #
                        persistent[ContadorPorUsuario(usuario)]
                 /\ IsSome(persistent'[UltimoSaludo(usuario)])
                 /\ \E nombre \in Nombres : hello(usuario, nombre)]_vars

\* One user has greeted twice and another never.
C18_Witness ==
    \E a \in Address, b \in Address :
        /\ contador_usuario_de(persistent, a) = 2
        /\ IsSome(ultimo_saludo_de(persistent, a))
        /\ contador_usuario_de(persistent, b) = 0
        /\ ultimo_saludo_de(persistent, b) = None

\* C15: set_limite called by the admin accepts every u32 value, 0 and
\* u32::MAX included: it returns Ok(()) and stores the value under
\* LimiteCaracteres, leaving every other instance entry, every persistent
\* entry and every TTL as they were.  While the stored limit is 0 every
\* hello returns an error and changes nothing, and every hello with a
\* non-empty name returns NombreMuyLargo.
C15_SetLimite ==
    [][/\ op' = "set_limite" =>
            \A caller \in Address, limite \in LimitesU32 :
                (EsAdmin(caller) /\ set_limite(caller, limite)) =>
                    /\ ret' = OkUnit
                    /\ instance' = [instance EXCEPT !["LimiteCaracteres"] = Some(limite)]
                    /\ limite_de(instance') = limite
                    /\ UNCHANGED <<persistent, instanceTtl, persistentTtl>>
       /\ (op' = "hello" /\ instance["LimiteCaracteres"] = Some(0)) =>
            /\ ret'.kind = "Err"
            /\ UNCHANGED <<instance, persistent, instanceTtl, persistentTtl>>
            /\ \A usuario \in Address, nombre \in Nombres :
                   (Len(nombre) > 0 /\ hello(usuario, nombre)) =>
                       ret' = Err(NombreMuyLargo)]_vars

\* A non-empty name has just been refused while the stored limit is 0.
C15_Witness ==
    /\ op = "hello"
    /\ ret = Err(NombreMuyLargo)
    /\ instance["LimiteCaracteres"] = Some(0)

\* C19: a hello never leaves ContadorSaludos or a ContadorPorUsuario at a
\* smaller u32 value than it found (no wrap from u32::MAX to 0), and a
\* hello that does not return Ok("Hola") leaves every stored value as it
\* was.
C19_NoWrap ==
    [][op' = "hello" =>
          /\ ~u32_lt(contador_de(instance'), contador_de(instance))
          /\ \A usuario \in Address :
                 ~u32_lt(contador_usuario_de(persistent', usuario),
                         contador_usuario_de(persistent, usuario))
          /\ ret' # OkSymbol("Hola") =>
                 UNCHANGED <<instance, persistent, instanceTtl, persistentTtl>>]_vars
====
